---- MODULE Spec2Model ----
(***************************************************************************)
(* SwiftRide (src/SwiftRide.py): drivers, customers, rides, the fare       *)
(* policies and their factory, the driver registry, the booking service    *)
(* and the system facade, as a state machine over the object heap.         *)
(*                                                                         *)
(* Objects are identified by their position in the heap sequence of their  *)
(* class (1, 2, ...); the absent reference None is 0.  A Python str is a   *)
(* tuple of text fragments: a category name is a tuple of one-character    *)
(* fragments (so that str.lower acts on it character by character), a      *)
(* literal of the program is one fragment, and an f-string is the          *)
(* concatenation of its parts.                                             *)
(***************************************************************************)
EXTENDS Integers, Sequences, FiniteSets, TLC

VARIABLES
    drivers,    \* heap of Driver objects: [name, status, current_ride]
    registry,   \* DriverManager.drivers: sequence of Driver references
    customers,  \* SwiftRideSystem.customers, the Customer objects: [name, ride_history]
    rides,      \* heap of Ride objects, in construction order
    ret,        \* the latest call: operation, result, error raised, lines printed
    main,       \* main(): position, bookings to make, local variables, standard output
    held        \* the list a client holds from get_all_drivers

vars == <<drivers, registry, customers, rides, ret, main, held>>

(***************************** bounds **************************************)
\* SpecRegistry: the registry and the list a client holds from get_all_drivers.
MaxListDrivers == 2
MaxListCustomers == 1
MaxListRides == 1
MaxListLen == 2

\* Spec: the system driven through the facade, the booking service and complete_ride.
MaxDrivers == 2
MaxCustomers == 2
MaxRides == 2
\* SpecEntity: the entities' own methods, called in any order.
MaxEntityDrivers == 1
MaxEntityCustomers == 1
MaxEntityRides == 2
\* SpecFare: rides over a range of distances.
MaxFareRides == 2
MaxDistance == 3

(***************************** inputs **************************************)
None == 0

DriverNames == { <<"Alice">> }
CustomerNames == { <<"John">> }
Pickups == { <<"Airport">> }
Dropoffs == { <<"Downtown">> }
Distances == {3}
FareDistances == 0..MaxDistance
RideTypes == {"EconomyRide", "LuxuryRide", "PoolRide"}

UpperCase == <<"A","B","C","D","E","F","G","H","I","J","K","L","M",
               "N","O","P","Q","R","S","T","U","V","W","X","Y","Z">>
LowerCase == <<"a","b","c","d","e","f","g","h","i","j","k","l","m",
               "n","o","p","q","r","s","t","u","v","w","x","y","z">>

\* Every upper/lower-case spelling of the word w (w given in lower case).
CaseVariants(w) ==
    { [i \in 1..Len(w) |-> IF i \in U
                             THEN UpperCase[CHOOSE k \in 1..26 : LowerCase[k] = w[i]]
                             ELSE w[i]] : U \in SUBSET (1..Len(w)) }

economy == <<"e","c","o","n","o","m","y">>
luxury  == <<"l","u","x","u","r","y">>
pool    == <<"p","o","o","l">>

\* Strings that no case folding turns into a category name.
OtherStrings ==
    { <<>>, <<"t","a","x","i">>, <<"P","o","o","l"," ">>, <<" ","p","o","o","l">>,
      <<"p","0","0","l">>, <<"e","c","o","n","o","m">>, <<"L","U","X","U","R","Y","1">>,
      <<"p","o","o","l","s">>, <<"E","c","o","-","n","o","m","y">> }

EconomySpellings == CaseVariants(economy)
LuxurySpellings == CaseVariants(luxury)
PoolSpellings == CaseVariants(pool)

\* The category strings the factory is exercised on.
FactoryInputs == EconomySpellings \cup LuxurySpellings \cup PoolSpellings \cup OtherStrings

\* The characters of the input strings.
Characters ==
    { UpperCase[k] : k \in 1..26 } \cup { LowerCase[k] : k \in 1..26 } \cup {" ", "0", "1", "-"}

\* The inputs of the entity-level exploration.
EntityRideTypes == {"EconomyRide"}
EntityCategories == { economy, <<"t","a","x","i">> }

\* The category strings bookings are made with.
BookingCategories ==
    { economy, <<"L","U","X","U","R","Y">>, <<"p","O","o","L">>, <<"t","a","x","i">> }

(***************************** DriverStatus ********************************)
AVAILABLE == "available"
OCCUPIED == "occupied"

(***************************** errors **************************************)
NoError == [type |-> "NoError", msg |-> <<>>]
ValueError(msg) == [type |-> "ValueError", msg |-> msg]

(***************************** fare policies *******************************)
EconomyRide_calculate_fare(distance) == distance * 5

\* Mutant: the luxury rate added instead of multiplied.
LuxuryRide_calculate_fare_added(distance) == distance + 10

LuxuryRide_calculate_fare(distance) == distance * 10
PoolRide_calculate_fare(distance) == distance * 3

\* Dynamic dispatch of RideType.calculate_fare on the policy's class.
calculate_fare(ride_type, distance) ==
    CASE ride_type = "EconomyRide" -> EconomyRide_calculate_fare(distance)
      [] ride_type = "LuxuryRide"  -> LuxuryRide_calculate_fare(distance)
      [] ride_type = "PoolRide"    -> PoolRide_calculate_fare(distance)

get_type_name(ride_type) ==
    CASE ride_type = "EconomyRide" -> <<"Economy">>
      [] ride_type = "LuxuryRide"  -> <<"Luxury">>
      [] ride_type = "PoolRide"    -> <<"Pool">>

(***************************** factory *************************************)
\* Mutant: no case folding.
lower_identity(s) == s

\* str.lower() on one character: an upper-case letter becomes its lower-case
\* letter, every other character is kept.
lower_character ==
    [c \in Characters |->
        IF \E k \in 1..26 : UpperCase[k] = c
        THEN LowerCase[CHOOSE k \in 1..26 : UpperCase[k] = c]
        ELSE c]

\* str.lower()
lower(s) == [i \in 1..Len(s) |-> lower_character[s[i]]]

ride_types == (economy :> "EconomyRide") @@ (luxury :> "LuxuryRide") @@ (pool :> "PoolRide")

\* Mutant: an unknown category falls back to the economy policy.
RideTypeFactory_create_ride_type_default(ride_type) ==
    LET ride_type_lower == lower(ride_type) IN
    IF ride_type_lower \notin DOMAIN ride_types
    THEN [raised |-> NoError, value |-> "EconomyRide"]
    ELSE [raised |-> NoError, value |-> ride_types[ride_type_lower]]

RideTypeFactory_create_ride_type(ride_type) ==
    LET ride_type_lower == lower(ride_type) IN
    IF ride_type_lower \notin DOMAIN ride_types
    THEN [raised |-> ValueError(<<"Invalid ride type: ">> \o ride_type), value |-> "None"]
    ELSE [raised |-> NoError, value |-> ride_types[ride_type_lower]]

(***************************** heap ****************************************)
\* The object graph the operations below read and write.
Heap == [drivers |-> drivers, registry |-> registry, customers |-> customers, rides |-> rides]

Driver_init(name) == [name |-> name, status |-> AVAILABLE, current_ride |-> None]

Driver_is_available(h, driver) == h.drivers[driver].status = AVAILABLE

\* Mutant: the ride is stored, the status stays as it was.
Driver_assign_ride_stays_available(h, driver, ride) ==
    IF ~Driver_is_available(h, driver)
    THEN [h |-> h,
          raised |-> ValueError(<<"Driver ">> \o h.drivers[driver].name \o <<" is not available">>)]
    ELSE [h |-> [h EXCEPT !.drivers[driver].current_ride = ride],
          raised |-> NoError]

\* Mutant: no availability check, the ride is stored whatever the status.
Driver_assign_ride_unchecked(h, driver, ride) ==
    [h |-> [h EXCEPT !.drivers[driver].status = OCCUPIED,
                     !.drivers[driver].current_ride = ride],
     raised |-> NoError]

Driver_assign_ride(h, driver, ride) ==
    IF ~Driver_is_available(h, driver)
    THEN [h |-> h,
          raised |-> ValueError(<<"Driver ">> \o h.drivers[driver].name \o <<" is not available">>)]
    ELSE [h |-> [h EXCEPT !.drivers[driver].status = OCCUPIED,
                          !.drivers[driver].current_ride = ride],
          raised |-> NoError]

\* Mutant: the status is reset, the ride reference is kept.
Driver_complete_ride_keeps_ride(h, driver) ==
    [h EXCEPT !.drivers[driver].status = AVAILABLE]

\* Mutant: a driver without a ride is left as it is, a driver with one is
\* released and moved to the end of the registry.
Driver_complete_ride_requeues(h, driver) ==
    IF h.drivers[driver].current_ride = None THEN h
    ELSE [h EXCEPT !.drivers[driver].status = AVAILABLE,
                   !.drivers[driver].current_ride = None,
                   !.registry = SelectSeq(@, LAMBDA d : d # driver) \o <<driver>>]

\* Mutant: completing also resets the ride the driver was on.
Driver_complete_ride_resets_ride(h, driver) ==
    LET ride == h.drivers[driver].current_ride
        h1 == [h EXCEPT !.drivers[driver].status = AVAILABLE,
                        !.drivers[driver].current_ride = None]
    IN  IF ride = None THEN h1
        ELSE [h1 EXCEPT !.rides[ride].driver = None, !.rides[ride].is_confirmed = FALSE]

Driver_complete_ride(h, driver) ==
    [h EXCEPT !.drivers[driver].status = AVAILABLE,
              !.drivers[driver].current_ride = None]

Customer_init(name) == [name |-> name, ride_history |-> <<>>]

Ride_init(customer, pickup_location, dropoff_location, distance, ride_type) ==
    [customer |-> customer,
     pickup_location |-> pickup_location,
     dropoff_location |-> dropoff_location,
     distance |-> distance,
     ride_type |-> ride_type,
     fare |-> calculate_fare(ride_type, distance),
     driver |-> None,
     is_confirmed |-> FALSE]

\* Mutant: the ride is not marked confirmed.
Ride_assign_driver_unconfirmed(h, ride, driver) ==
    LET h1 == [h EXCEPT !.rides[ride].driver = driver]
        a == Driver_assign_ride(h1, driver, ride)
    IN  [h |-> a.h, raised |-> a.raised]

\* Mutant: the driver is not stored in the ride.
Ride_assign_driver_not_stored(h, ride, driver) ==
    LET a == Driver_assign_ride(h, driver, ride) IN
    IF a.raised # NoError
    THEN [h |-> a.h, raised |-> a.raised]
    ELSE [h |-> [a.h EXCEPT !.rides[ride].is_confirmed = TRUE], raised |-> NoError]

Ride_assign_driver(h, ride, driver) ==
    LET h1 == [h EXCEPT !.rides[ride].driver = driver]
        a == Driver_assign_ride(h1, driver, ride)
    IN  IF a.raised # NoError
        THEN [h |-> a.h, raised |-> a.raised]
        ELSE [h |-> [a.h EXCEPT !.rides[ride].is_confirmed = TRUE], raised |-> NoError]

(***************************** driver registry *****************************)
DriverManager_add_driver(h, driver) == [h EXCEPT !.registry = Append(@, driver)]

\* The for loop of get_available_driver over self.drivers[i..].
RECURSIVE scan_available(_, _)
scan_available(h, i) ==
    IF i > Len(h.registry) THEN None
    ELSE IF Driver_is_available(h, h.registry[i]) THEN h.registry[i]
    ELSE scan_available(h, i + 1)

\* Mutant: the scan runs from the end of the registry.
RECURSIVE scan_available_backwards(_, _)
scan_available_backwards(h, i) ==
    IF i < 1 THEN None
    ELSE IF Driver_is_available(h, h.registry[i]) THEN h.registry[i]
    ELSE scan_available_backwards(h, i - 1)

DriverManager_get_available_driver_last(h) == scan_available_backwards(h, Len(h.registry))

\* Mutant: the first registered driver, whatever its status.
DriverManager_get_available_driver_any(h) ==
    IF Len(h.registry) = 0 THEN None ELSE h.registry[1]

DriverManager_get_available_driver(h) == scan_available(h, 1)

\* Mutant: the registry's own list is returned.
DriverManager_get_all_drivers_live(h) == [list |-> "drivers", items |-> h.registry]

\* A reference to a list: `list` tells which list object it is, the registry's
\* own ("drivers") or a new one ("copy") whose items are `items`.
DriverManager_get_all_drivers(h) == [list |-> "copy", items |-> h.registry]

(***************************** booking service *****************************)
\* Mutant: the ride is put in the customer's history before a driver is sought.
RideBookingService_book_ride_records_first(h, customer, pickup_location, dropoff_location, distance, ride_type_str) ==
    LET f == RideTypeFactory_create_ride_type(ride_type_str) IN
    IF f.raised # NoError
    THEN [h |-> h, result |-> None, raised |-> NoError,
          printed |-> << <<"Error booking ride: ">> \o f.raised.msg >>]
    ELSE
      LET ride == Len(h.rides) + 1
          h1 == [h EXCEPT !.rides = Append(@, Ride_init(customer, pickup_location,
                                             dropoff_location, distance, f.value)),
                          !.customers[customer].ride_history = Append(@, ride)]
          available_driver == DriverManager_get_available_driver(h1)
      IN  IF available_driver # None
          THEN LET a == Ride_assign_driver(h1, ride, available_driver) IN
               [h |-> a.h, result |-> ride, raised |-> NoError, printed |-> <<>>]
          ELSE [h |-> h1, result |-> None, raised |-> NoError, printed |-> <<>>]

\* Mutant: the ride is inserted at the front of the customer's history.
RideBookingService_book_ride_inserts_first(h, customer, pickup_location, dropoff_location, distance, ride_type_str) ==
    LET f == RideTypeFactory_create_ride_type(ride_type_str) IN
    IF f.raised # NoError
    THEN [h |-> h, result |-> None, raised |-> NoError,
          printed |-> << <<"Error booking ride: ">> \o f.raised.msg >>]
    ELSE
      LET h1 == [h EXCEPT !.rides = Append(@, Ride_init(customer, pickup_location,
                                             dropoff_location, distance, f.value))]
          ride == Len(h1.rides)
          available_driver == DriverManager_get_available_driver(h1)
      IN  IF available_driver # None
          THEN LET a == Ride_assign_driver(h1, ride, available_driver) IN
               IF a.raised # NoError
               THEN [h |-> a.h, result |-> None, raised |-> NoError,
                     printed |-> << <<"Error booking ride: ">> \o a.raised.msg >>]
               ELSE [h |-> [a.h EXCEPT !.customers[customer].ride_history = <<ride>> \o @],
                     result |-> ride, raised |-> NoError, printed |-> <<>>]
          ELSE [h |-> h1, result |-> None, raised |-> NoError, printed |-> <<>>]

RideBookingService_book_ride(h, customer, pickup_location, dropoff_location, distance, ride_type_str) ==
    LET f == RideTypeFactory_create_ride_type(ride_type_str) IN
    IF f.raised # NoError
    THEN [h |-> h, result |-> None, raised |-> NoError,
          printed |-> << <<"Error booking ride: ">> \o f.raised.msg >>]
    ELSE
      LET h1 == [h EXCEPT !.rides = Append(@, Ride_init(customer, pickup_location,
                                             dropoff_location, distance, f.value))]
          ride == Len(h1.rides)
          available_driver == DriverManager_get_available_driver(h1)
      IN  IF available_driver # None
          THEN LET a == Ride_assign_driver(h1, ride, available_driver) IN
               IF a.raised # NoError
               THEN [h |-> a.h, result |-> None, raised |-> NoError,
                     printed |-> << <<"Error booking ride: ">> \o a.raised.msg >>]
               ELSE [h |-> [a.h EXCEPT !.customers[customer].ride_history = Append(@, ride)],
                     result |-> ride, raised |-> NoError, printed |-> <<>>]
          ELSE [h |-> h1, result |-> None, raised |-> NoError, printed |-> <<>>]

(***************************** SwiftRideSystem ******************************)
\* The decimal digits as characters.
digit == <<"0", "1", "2", "3", "4", "5", "6", "7", "8", "9">>

\* The decimal numeral of a natural number, most significant digit first.
RECURSIVE decimal(_)
decimal(n) ==
    IF n < 10 THEN <<digit[n + 1]>>
    ELSE decimal(n \div 10) \o <<digit[(n % 10) + 1]>>

\* The format specification ".0f" applied to a whole number: its numeral with
\* no fraction digits and no decimal point, a minus sign first when negative.
format_0f(x) == IF x < 0 THEN <<"-">> \o decimal(-x) ELSE decimal(x)

\* SwiftRideSystem.add_driver: a new Driver, registered; result is the driver.
SwiftRideSystem_add_driver(h, name) ==
    LET h1 == [h EXCEPT !.drivers = Append(@, Driver_init(name))]
        driver == Len(h1.drivers)
    IN  [h |-> DriverManager_add_driver(h1, driver), result |-> driver]

\* SwiftRideSystem.add_customer: a new Customer, appended to the system's
\* customers; result is the customer.
SwiftRideSystem_add_customer(h, name) ==
    LET h1 == [h EXCEPT !.customers = Append(@, Customer_init(name))]
    IN  [h |-> h1, result |-> Len(h1.customers)]

\* Mutant: nothing is printed after the service's own diagnostic.
SwiftRideSystem_book_ride_silent(h, customer, pickup_location, dropoff_location, distance, ride_type) ==
    LET b == RideBookingService_book_ride(h, customer, pickup_location,
                                          dropoff_location, distance, ride_type)
        ride == b.result
    IN  IF b.raised # NoError
        THEN [h |-> b.h, result |-> None, raised |-> b.raised, printed |-> b.printed]
        ELSE IF ride # None
        THEN [h |-> b.h, result |-> None, raised |-> NoError,
              printed |-> Append(b.printed,
                                 <<"Ride Fare: $">> \o format_0f(b.h.rides[ride].fare)
                                 \o <<", Driver: ">>
                                 \o b.h.drivers[b.h.rides[ride].driver].name)]
        ELSE [h |-> b.h, result |-> None, raised |-> NoError,
              printed |-> IF b.printed = <<>>
                          THEN << <<"No drivers available.">> >> ELSE b.printed]

\* SwiftRideSystem.book_ride: the service's booking, then one line about its
\* result.  printed holds the lines in the order they are printed, the
\* service's first.
SwiftRideSystem_book_ride(h, customer, pickup_location, dropoff_location, distance, ride_type) ==
    LET b == RideBookingService_book_ride(h, customer, pickup_location,
                                          dropoff_location, distance, ride_type)
        ride == b.result
    IN  IF b.raised # NoError
        THEN [h |-> b.h, result |-> None, raised |-> b.raised, printed |-> b.printed]
        ELSE IF ride # None
        THEN [h |-> b.h, result |-> None, raised |-> NoError,
              printed |-> Append(b.printed,
                                 <<"Ride Fare: $">> \o format_0f(b.h.rides[ride].fare)
                                 \o <<", Driver: ">>
                                 \o b.h.drivers[b.h.rides[ride].driver].name)]
        ELSE [h |-> b.h, result |-> None, raised |-> NoError,
              printed |-> Append(b.printed, <<"No drivers available.">>)]

(***************************** object lifetime *****************************)
\* Whether some driver or some customer's history refers to the ride.
Referenced(h, ride) ==
    \/ \E d \in 1..Len(h.drivers) : h.drivers[d].current_ride = ride
    \/ \E c \in 1..Len(h.customers) :
          \E i \in 1..Len(h.customers[c].ride_history) : h.customers[c].ride_history[i] = ride

\* The heap once book_ride, entered with heap `before`, has returned `result`
\* leaving heap h: a Ride it constructed is the last one of h.rides, and lives
\* on only if it was returned or stored.
AfterReturn(before, h, result) ==
    LET ride == Len(h.rides) IN
    IF ride > Len(before.rides) /\ ride # result /\ ~Referenced(h, ride)
    THEN [h EXCEPT !.rides = SubSeq(@, 1, ride - 1)]
    ELSE h

(***************************** state machine *******************************)
Store(h) ==
    /\ drivers' = h.drivers
    /\ registry' = h.registry
    /\ customers' = h.customers
    /\ rides' = h.rides

\* The record of a call.  arg is kept for the factory alone (its category string).
Call(op, arg, result, raised, printed) ==
    [op |-> op, arg |-> arg, result |-> result, raised |-> raised, printed |-> printed]

\* A client's call returns: main() is not running and the list the client
\* holds is left alone.
Returns(op, arg, result, raised, printed) ==
    /\ ret' = Call(op, arg, result, raised, printed)
    /\ UNCHANGED <<main, held>>

\* The client holds no list: get_all_drivers has not been called.
NoList == [list |-> "none", items |-> <<>>]

\* main() not running.
NoMain == [pc |-> 0, bookings |-> <<>>, locals |-> <<>>, stdout |-> <<>>]

Init ==
    /\ drivers = <<>>
    /\ registry = <<>>
    /\ customers = <<>>
    /\ rides = <<>>
    /\ ret = Call("init", <<>>, None, NoError, <<>>)
    /\ main = NoMain
    /\ held = NoList

\* SwiftRideSystem.add_driver(name)
AddDriver(limit, name) ==
    /\ Len(drivers) < limit
    /\ LET a == SwiftRideSystem_add_driver(Heap, name) IN
       /\ Store(a.h)
       /\ Returns("add_driver", <<>>, a.result, NoError, <<>>)

\* SwiftRideSystem.add_customer(name)
AddCustomer(limit, name) ==
    /\ Len(customers) < limit
    /\ LET a == SwiftRideSystem_add_customer(Heap, name) IN
       /\ Store(a.h)
       /\ Returns("add_customer", <<>>, a.result, NoError, <<>>)

\* Ride(customer, pickup, dropoff, distance, ride_type)
NewRide(limit, customer, pickup, dropoff, distance, ride_type) ==
    /\ Len(rides) < limit
    /\ rides' = Append(rides, Ride_init(customer, pickup, dropoff, distance, ride_type))
    /\ Returns("Ride", <<>>, Len(rides) + 1, NoError, <<>>)
    /\ UNCHANGED <<drivers, registry, customers>>

\* RideTypeFactory.create_ride_type(ride_type)
CreateRideType(ride_type) ==
    /\ LET f == RideTypeFactory_create_ride_type(ride_type) IN
       Returns("create_ride_type", ride_type, f.value, f.raised, <<>>)
    /\ UNCHANGED <<drivers, registry, customers, rides>>

\* driver.assign_ride(ride)
AssignRide(driver, ride) ==
    /\ LET a == Driver_assign_ride(Heap, driver, ride) IN
       /\ Store(a.h)
       /\ Returns("assign_ride", <<>>, None, a.raised, <<>>)

\* driver.complete_ride()
CompleteRide(driver) ==
    /\ Store(Driver_complete_ride(Heap, driver))
    /\ Returns("complete_ride", <<>>, None, NoError, <<>>)

\* ride.assign_driver(driver)
AssignDriver(ride, driver) ==
    /\ LET a == Ride_assign_driver(Heap, ride, driver) IN
       /\ Store(a.h)
       /\ Returns("assign_driver", <<>>, None, a.raised, <<>>)

\* driver_manager.get_available_driver()
GetAvailableDriver ==
    /\ Returns("get_available_driver", <<>>, DriverManager_get_available_driver(Heap),
                   NoError, <<>>)
    /\ UNCHANGED <<drivers, registry, customers, rides>>

\* booking_service.book_ride(customer, pickup, dropoff, distance, ride_type_str)
BookRide(limit, customer, pickup, dropoff, distance, ride_type_str) ==
    /\ LET b == RideBookingService_book_ride(Heap, customer, pickup, dropoff,
                                             distance, ride_type_str)
           h == AfterReturn(Heap, b.h, b.result)
       IN  /\ Len(h.rides) <= limit
           /\ Store(h)
           /\ Returns("book_ride", <<>>, b.result, b.raised, b.printed)

\* SwiftRideSystem.book_ride called by a client: it returns nothing, the ride
\* lives on only if the booking stored it.
SystemBookRide(limit, customer, pickup, dropoff, distance, ride_type) ==
    /\ LET s == SwiftRideSystem_book_ride(Heap, customer, pickup, dropoff,
                                          distance, ride_type)
           h == AfterReturn(Heap, s.h, s.result)
       IN  /\ Len(h.rides) <= limit
           /\ Store(h)
           /\ Returns("SwiftRideSystem.book_ride", <<>>, s.result, s.raised, s.printed)

\* The system driven through SwiftRideSystem, RideBookingService and the
\* drivers' complete_ride.
Next ==
    \/ \E name \in DriverNames : AddDriver(MaxDrivers, name)
    \/ \E name \in CustomerNames : AddCustomer(MaxCustomers, name)
    \/ \E driver \in 1..Len(drivers) : CompleteRide(driver)
    \/ GetAvailableDriver
    \/ \E customer \in 1..Len(customers), pickup \in Pickups, dropoff \in Dropoffs,
          distance \in Distances, ride_type_str \in BookingCategories :
          BookRide(MaxRides, customer, pickup, dropoff, distance, ride_type_str)

Spec == Init /\ [][Next]_vars

\* The system driven through SwiftRideSystem alone, next to the drivers'
\* complete_ride.
NextSystem ==
    \/ \E name \in DriverNames : AddDriver(MaxDrivers, name)
    \/ \E name \in CustomerNames : AddCustomer(MaxCustomers, name)
    \/ \E driver \in 1..Len(drivers) : CompleteRide(driver)
    \/ \E customer \in 1..Len(customers), pickup \in Pickups, dropoff \in Dropoffs,
          distance \in Distances, ride_type \in BookingCategories :
          SystemBookRide(MaxRides, customer, pickup, dropoff, distance, ride_type)

SpecSystem == Init /\ [][NextSystem]_vars

(***************************** get_all_drivers ******************************)
\* The items of the list a reference stands for.
list_items(h, ref) == IF ref.list = "drivers" THEN h.registry ELSE ref.items

RECURSIVE reversed(_)
reversed(items) ==
    IF items = <<>> THEN <<>>
    ELSE Append(reversed(SubSeq(items, 2, Len(items))), items[1])

\* held = driver_manager.get_all_drivers()
GetAllDrivers ==
    /\ held' = DriverManager_get_all_drivers(Heap)
    /\ ret' = Call("get_all_drivers", <<>>, None, NoError, <<>>)
    /\ UNCHANGED <<drivers, registry, customers, rides, main>>

\* The client's list becomes `items`: the write goes to the list object the
\* reference stands for.
ListWrite(op, items) ==
    /\ IF held.list = "drivers"
       THEN registry' = items /\ UNCHANGED held
       ELSE held' = [held EXCEPT !.items = items] /\ UNCHANGED registry
    /\ ret' = Call(op, <<>>, None, NoError, <<>>)
    /\ UNCHANGED <<drivers, customers, rides, main>>

\* held.append(driver)
ListAppend(limit, driver) ==
    /\ held # NoList
    /\ Len(list_items(Heap, held)) < limit
    /\ ListWrite("list.append", Append(list_items(Heap, held), driver))

\* held.pop()
ListPop ==
    /\ held # NoList
    /\ list_items(Heap, held) # <<>>
    /\ ListWrite("list.pop", SubSeq(list_items(Heap, held), 1, Len(list_items(Heap, held)) - 1))

\* held.reverse()
ListReverse ==
    /\ held # NoList
    /\ ListWrite("list.reverse", reversed(list_items(Heap, held)))

\* The registry, bookings and completions next to a client that takes the
\* list of all drivers and adds to it, removes from it and reorders it.
NextRegistry ==
    \/ \E name \in DriverNames : AddDriver(MaxListDrivers, name)
    \/ \E name \in CustomerNames : AddCustomer(MaxListCustomers, name)
    \/ \E driver \in 1..Len(drivers) : CompleteRide(driver)
    \/ GetAvailableDriver
    \/ \E customer \in 1..Len(customers), pickup \in Pickups, dropoff \in Dropoffs,
          distance \in Distances, ride_type_str \in EntityCategories :
          BookRide(MaxListRides, customer, pickup, dropoff, distance, ride_type_str)
    \/ GetAllDrivers
    \/ \E driver \in 1..Len(drivers) : ListAppend(MaxListLen, driver)
    \/ ListPop
    \/ ListReverse

SpecRegistry == Init /\ [][NextRegistry]_vars

(***************************** main() ***************************************)
\* The statements of main(), in program order.  A booking takes its distance
\* and category from main.bookings[arg].
MainProgram ==
    << [line |-> 214, op |-> "SwiftRideSystem"],
       [line |-> 217, op |-> "add_driver", var |-> "alice", name |-> <<"Alice">>],
       [line |-> 218, op |-> "add_driver", var |-> "bob", name |-> <<"Bob">>],
       [line |-> 221, op |-> "add_customer", var |-> "john", name |-> <<"John">>],
       [line |-> 222, op |-> "add_customer", var |-> "rebecca", name |-> <<"Rebecca">>],
       [line |-> 223, op |-> "add_customer", var |-> "mike", name |-> <<"Mike">>],
       [line |-> 225, op |-> "print", text |-> <<"=== SwiftRide System Test ===\n">>],
       [line |-> 228, op |-> "print", text |-> <<"Task 6:">>],
       [line |-> 229, op |-> "book_ride", var |-> "john", arg |-> 1,
        pickup |-> <<"Airport">>, dropoff |-> <<"Downtown">>],
       [line |-> 232, op |-> "print", text |-> <<"\nTask 7:">>],
       [line |-> 233, op |-> "book_ride", var |-> "rebecca", arg |-> 2,
        pickup |-> <<"College">>, dropoff |-> <<"Downtown">>],
       [line |-> 236, op |-> "print", text |-> <<"\nTask 8:">>],
       [line |-> 237, op |-> "book_ride", var |-> "mike", arg |-> 3,
        pickup |-> <<"Downtown">>, dropoff |-> <<"Shopping Mall">>] >>

MainLocals == {"alice", "bob", "john", "rebecca", "mike"}

\* The distances and categories of the three bookings as main() has them.
main_bookings ==
    << [distance |-> 15, ride_type |-> <<"E", "c", "o", "n", "o", "m", "y">>],
       [distance |-> 10, ride_type |-> <<"L", "u", "x", "u", "r", "y">>],
       [distance |-> 5, ride_type |-> <<"P", "o", "o", "l">>] >>

\* The distances and categories main()'s bookings are run with: those of
\* main() in any arrangement.
MainArguments ==
    { [distance |-> main_bookings[i].distance, ride_type |-> main_bookings[j].ride_type] :
          i, j \in 1..Len(main_bookings) }

\* main() is entered: no object exists yet.
InitMain ==
    /\ drivers = <<>>
    /\ registry = <<>>
    /\ customers = <<>>
    /\ rides = <<>>
    /\ ret = Call("init", <<>>, None, NoError, <<>>)
    /\ \E bookings \in [1..Len(main_bookings) -> MainArguments] :
          main = [pc |-> 1, bookings |-> bookings,
                  locals |-> [v \in MainLocals |-> None], stdout |-> <<>>]
    /\ held = NoList

\* The statement main() is at, None once it has returned.
MainStatement ==
    IF main.pc \in 1..Len(MainProgram) THEN MainProgram[main.pc] ELSE [op |-> "return"]

\* system = SwiftRideSystem()
MainSwiftRideSystem ==
    /\ MainStatement.op = "SwiftRideSystem"
    /\ Store([drivers |-> <<>>, registry |-> <<>>, customers |-> <<>>, rides |-> <<>>])
    /\ ret' = Call("SwiftRideSystem", <<>>, None, NoError, <<>>)
    /\ main' = [main EXCEPT !.pc = @ + 1]
    /\ UNCHANGED held

\* <var> = system.add_driver(<name>)
MainAddDriver ==
    /\ MainStatement.op = "add_driver"
    /\ LET a == SwiftRideSystem_add_driver(Heap, MainStatement.name) IN
       /\ Store(a.h)
       /\ ret' = Call("add_driver", <<>>, a.result, NoError, <<>>)
       /\ main' = [main EXCEPT !.pc = @ + 1, !.locals[MainStatement.var] = a.result]
    /\ UNCHANGED held

\* <var> = system.add_customer(<name>)
MainAddCustomer ==
    /\ MainStatement.op = "add_customer"
    /\ LET a == SwiftRideSystem_add_customer(Heap, MainStatement.name) IN
       /\ Store(a.h)
       /\ ret' = Call("add_customer", <<>>, a.result, NoError, <<>>)
       /\ main' = [main EXCEPT !.pc = @ + 1, !.locals[MainStatement.var] = a.result]
    /\ UNCHANGED held

\* print(<text>)
MainPrint ==
    /\ MainStatement.op = "print"
    /\ ret' = Call("print", <<>>, None, NoError, <<MainStatement.text>>)
    /\ main' = [main EXCEPT !.pc = @ + 1, !.stdout = Append(@, MainStatement.text)]
    /\ UNCHANGED <<drivers, registry, customers, rides, held>>

\* system.book_ride(<var>, <pickup>, <dropoff>, <distance>, <category>)
MainBookRide ==
    /\ MainStatement.op = "book_ride"
    /\ LET s == SwiftRideSystem_book_ride(Heap, main.locals[MainStatement.var],
                                          MainStatement.pickup, MainStatement.dropoff,
                                          main.bookings[MainStatement.arg].distance,
                                          main.bookings[MainStatement.arg].ride_type)
       IN  /\ Store(AfterReturn(Heap, s.h, s.result))
           /\ ret' = Call("SwiftRideSystem.book_ride", <<>>, s.result, s.raised, s.printed)
           /\ main' = [main EXCEPT !.pc = @ + 1, !.stdout = @ \o s.printed]
    /\ UNCHANGED held

NextMain ==
    \/ MainSwiftRideSystem
    \/ MainAddDriver
    \/ MainAddCustomer
    \/ MainPrint
    \/ MainBookRide

SpecMain == InitMain /\ [][NextMain]_vars

\* The entities' methods called directly, in any order, next to bookings.
NextEntity ==
    \/ \E name \in DriverNames : AddDriver(MaxEntityDrivers, name)
    \/ \E name \in CustomerNames : AddCustomer(MaxEntityCustomers, name)
    \/ \E customer \in 1..Len(customers), pickup \in Pickups, dropoff \in Dropoffs,
          distance \in Distances, ride_type \in EntityRideTypes :
          NewRide(MaxEntityRides, customer, pickup, dropoff, distance, ride_type)
    \/ \E driver \in 1..Len(drivers), ride \in 1..Len(rides) : AssignRide(driver, ride)
    \/ \E driver \in 1..Len(drivers) : CompleteRide(driver)
    \/ \E ride \in 1..Len(rides), driver \in 1..Len(drivers) : AssignDriver(ride, driver)
    \/ \E customer \in 1..Len(customers), pickup \in Pickups, dropoff \in Dropoffs,
          distance \in Distances, ride_type_str \in EntityCategories :
          BookRide(MaxEntityRides, customer, pickup, dropoff, distance, ride_type_str)

SpecEntity == Init /\ [][NextEntity]_vars

\* The system once add_driver("Alice") and add_customer("John") have returned.
InitFare ==
    /\ LET a == SwiftRideSystem_add_driver([drivers |-> <<>>, registry |-> <<>>,
                                            customers |-> <<>>, rides |-> <<>>],
                                           <<"Alice">>)
           c == SwiftRideSystem_add_customer(a.h, <<"John">>)
       IN  /\ drivers = c.h.drivers
           /\ registry = c.h.registry
           /\ customers = c.h.customers
           /\ rides = c.h.rides
           /\ ret = Call("add_customer", <<>>, c.result, NoError, <<>>)
    /\ main = NoMain
    /\ held = NoList

\* Rides of every category over a range of distances, constructed by a client
\* and then assigned, or booked (at the largest distance); the driver
\* completes its ride and is booked or assigned again.
NextFare ==
    \/ \E customer \in 1..Len(customers), pickup \in Pickups, dropoff \in Dropoffs,
          distance \in FareDistances, ride_type \in RideTypes :
          NewRide(MaxFareRides, customer, pickup, dropoff, distance, ride_type)
    \/ \E ride \in 1..Len(rides), driver \in 1..Len(drivers) : AssignDriver(ride, driver)
    \/ \E driver \in 1..Len(drivers) : CompleteRide(driver)
    \/ \E customer \in 1..Len(customers), pickup \in Pickups, dropoff \in Dropoffs,
          distance \in {MaxDistance}, ride_type_str \in BookingCategories :
          BookRide(MaxFareRides, customer, pickup, dropoff, distance, ride_type_str)

SpecFare == InitFare /\ [][NextFare]_vars

\* The factory alone, on every spelling of the category names.
NextFactory == \E ride_type \in FactoryInputs : CreateRideType(ride_type)

SpecFactory == Init /\ [][NextFactory]_vars

(***************************** properties **********************************)
\* The category names, every spelling of them, stated without str.lower.
IsEconomy(s) == s \in EconomySpellings
IsLuxury(s) == s \in LuxurySpellings
IsPool(s) == s \in PoolSpellings
IsCategory(s) == IsEconomy(s) \/ IsLuxury(s) \/ IsPool(s)

\* The registry positions whose driver is Available.
AvailablePositions == { i \in 1..Len(registry) : drivers[registry[i]].status = AVAILABLE }

\* The first Available driver in registration order, None when there is none.
FirstAvailable ==
    IF AvailablePositions = {} THEN None
    ELSE registry[CHOOSE i \in AvailablePositions : \A j \in AvailablePositions : i <= j]

\* C1: book_ride with a recognized category while some registered driver is
\* Available returns a ride; that ride alone is appended at the end of the
\* customer's history, it is confirmed and driven by the first Available driver
\* in registration order, that driver is now Occupied with the ride as its
\* current_ride, and the other drivers and the other customers' histories are
\* as before the call.
C1_BookingSucceeds ==
    \A customer \in 1..Len(customers), pickup \in Pickups, dropoff \in Dropoffs,
       distance \in Distances, ride_type_str \in BookingCategories :
       (IsCategory(ride_type_str) /\ AvailablePositions # {}) =>
           LET b == RideBookingService_book_ride(Heap, customer, pickup, dropoff,
                                                 distance, ride_type_str)
               h == AfterReturn(Heap, b.h, b.result)
               ride == b.result
               driver == FirstAvailable
           IN  /\ ride # None
               /\ b.raised = NoError
               /\ ride \in (Len(rides) + 1)..Len(h.rides)
               /\ h.customers[customer].ride_history
                      = Append(customers[customer].ride_history, ride)
               /\ h.rides[ride].is_confirmed = TRUE
               /\ h.rides[ride].driver = driver
               /\ h.drivers[driver].status = OCCUPIED
               /\ h.drivers[driver].current_ride = ride
               /\ Len(h.drivers) = Len(drivers)
               /\ \A d \in 1..Len(drivers) : d # driver => h.drivers[d] = drivers[d]
               /\ Len(h.customers) = Len(customers)
               /\ \A c \in 1..Len(customers) :
                     c # customer => h.customers[c].ride_history = customers[c].ride_history

\* C1 witness: the second booking, by the second customer, was given the second
\* driver, the first being Occupied by the first customer's ride.
C1_Witness ==
    /\ ret.op = "book_ride" /\ ret.result = 2
    /\ Len(drivers) = 2 /\ Len(customers) = 2 /\ Len(rides) = 2
    /\ drivers[1].status = OCCUPIED /\ drivers[1].current_ride = 1
    /\ drivers[2].status = OCCUPIED /\ drivers[2].current_ride = 2
    /\ rides[2].is_confirmed /\ rides[2].driver = 2
    /\ customers[1].ride_history = <<1>>
    /\ customers[2].ride_history = <<2>>

\* C2: book_ride with a recognized category while no registered driver is
\* Available (all Occupied, or none registered) returns None and leaves every
\* driver, every customer and the registry as they were; the ride built for the
\* attempt is referenced by nothing and is gone after the call.
C2_NoDriverNoTrace ==
    \A customer \in 1..Len(customers), pickup \in Pickups, dropoff \in Dropoffs,
       distance \in Distances, ride_type_str \in BookingCategories :
       (IsCategory(ride_type_str) /\ AvailablePositions = {}) =>
           LET b == RideBookingService_book_ride(Heap, customer, pickup, dropoff,
                                                 distance, ride_type_str)
           IN  /\ b.result = None
               /\ b.raised = NoError
               /\ b.h.drivers = drivers
               /\ b.h.customers = customers
               /\ b.h.registry = registry
               /\ SubSeq(b.h.rides, 1, Len(rides)) = rides
               /\ \A r \in (Len(rides) + 1)..Len(b.h.rides) : ~Referenced(b.h, r)
               /\ AfterReturn(Heap, b.h, b.result) = Heap

\* C2 witness: a booking has just returned None without a diagnostic while both
\* registered drivers are Occupied.
C2_Witness ==
    /\ ret.op = "book_ride" /\ ret.result = None /\ ret.printed = <<>>
    /\ Len(registry) = 2 /\ AvailablePositions = {}
    /\ Len(customers) = 2 /\ customers[2].ride_history = <<>>

\* C3: book_ride with a category that is no spelling of economy, luxury or pool
\* returns None, raises nothing, prints the diagnostic with the category as it
\* was given, and leaves the whole heap as it was, whether or not a driver is
\* Available.
C3_InvalidCategorySwallowed ==
    \A customer \in 1..Len(customers), pickup \in Pickups, dropoff \in Dropoffs,
       distance \in Distances, ride_type_str \in BookingCategories :
       ~IsCategory(ride_type_str) =>
           LET b == RideBookingService_book_ride(Heap, customer, pickup, dropoff,
                                                 distance, ride_type_str)
           IN  /\ b.result = None
               /\ b.raised = NoError
               /\ b.printed = << <<"Error booking ride: ", "Invalid ride type: ">>
                                   \o ride_type_str >>
               /\ b.h = Heap

\* C3 witness: a booking has just printed the diagnostic and returned None
\* while a driver was Available.
C3_Witness ==
    /\ ret.op = "book_ride" /\ ret.result = None
    /\ ret.printed = << <<"Error booking ride: ", "Invalid ride type: ", "t", "a", "x", "i">> >>
    /\ AvailablePositions # {}
    /\ \E d \in 1..Len(drivers) : drivers[d].status = OCCUPIED

\* C4: get_available_driver returns the Available driver of smallest
\* registration position, and None exactly when no registered driver is
\* Available (the empty registry included); the call changes no state.
C4_FirstAvailableResult ==
    /\ DriverManager_get_available_driver(Heap) = FirstAvailable
    /\ (DriverManager_get_available_driver(Heap) = None) <=> (AvailablePositions = {})
    /\ (ret.op = "get_available_driver" => ret.result = FirstAvailable)

C4_FirstAvailable ==
    /\ []C4_FirstAvailableResult
    /\ [][ret'.op = "get_available_driver" =>
            UNCHANGED <<drivers, registry, customers, rides>>]_vars

\* C4 witness: the call has just returned the second driver, the first being
\* Occupied.
C4_Witness ==
    /\ ret.op = "get_available_driver" /\ ret.result = 2
    /\ Len(registry) = 2
    /\ drivers[1].status = OCCUPIED /\ drivers[2].status = AVAILABLE

\* C5: every ride is confirmed exactly when its driver is set, after any
\* sequence of Ride construction, Ride.assign_driver (failing calls included),
\* Driver.assign_ride, Driver.complete_ride and book_ride.
C5_RideInvariant ==
    \A r \in 1..Len(rides) : rides[r].is_confirmed <=> (rides[r].driver # None)

\* C6: every driver is Occupied exactly when its current_ride is set, after any
\* sequence of driver construction, Driver.assign_ride (successful or failing),
\* Driver.complete_ride, Ride.assign_driver and book_ride.
C6_DriverInvariant ==
    \A d \in 1..Len(drivers) :
        (drivers[d].status = OCCUPIED) <=> (drivers[d].current_ride # None)

\* C6 witness: an assign_ride has just failed on the Occupied driver, after a
\* booking and a directly constructed ride.
C6_Witness ==
    /\ ret.op = "assign_ride" /\ ret.raised # NoError
    /\ drivers[1].status = OCCUPIED /\ drivers[1].current_ride = 1
    /\ customers[1].ride_history = <<1>>
    /\ Len(rides) = 2

\* C7: assign_ride on an Available driver leaves it Occupied with the given
\* ride as current_ride; on an Occupied driver it fails with the "not
\* available" ValueError and leaves the driver's status and current_ride (and
\* everything else) as they were.
C7_AssignRide ==
    \A d \in 1..Len(drivers), r \in 1..Len(rides) :
        LET a == Driver_assign_ride(Heap, d, r) IN
        IF drivers[d].status = AVAILABLE
        THEN /\ a.raised = NoError
             /\ a.h.drivers[d].status = OCCUPIED
             /\ a.h.drivers[d].current_ride = r
        ELSE /\ a.raised = ValueError(<<"Driver ">> \o drivers[d].name \o <<" is not available">>)
             /\ a.h.drivers[d].status = drivers[d].status
             /\ a.h.drivers[d].current_ride = drivers[d].current_ride
             /\ a.h = Heap

\* C7 witness: an assign_ride has just failed on the driver Occupied with
\* ride 2, while ride 1 exists as well: ride 2 is still its current_ride.
C7_Witness ==
    /\ ret.op = "assign_ride" /\ ret.raised.type = "ValueError"
    /\ Len(rides) = 2
    /\ drivers[1].status = OCCUPIED /\ drivers[1].current_ride = 2
    /\ rides[1].driver = None

\* The registry positions of a driver.
PositionsOf(h, driver) == { i \in 1..Len(h.registry) : h.registry[i] = driver }

\* C8: complete_ride leaves the driver Available without a current_ride; on an
\* Available driver it changes nothing at all; on an Occupied driver it leaves
\* the registry as it was, so that get_available_driver then returns that driver
\* unless a driver registered before it is Available.
C8_CompleteRide ==
    \A d \in 1..Len(drivers) :
        LET h == Driver_complete_ride(Heap, d)
            found == DriverManager_get_available_driver(h)
        IN  /\ h.drivers[d].status = AVAILABLE
            /\ h.drivers[d].current_ride = None
            /\ (drivers[d].status = AVAILABLE => h = Heap)
            /\ (drivers[d].status = OCCUPIED =>
                   /\ h.registry = registry
                   /\ \A i \in PositionsOf(h, d) :
                         /\ \E j \in 1..i : h.registry[j] = found
                         /\ (\A j \in 1..(i - 1) : drivers[registry[j]].status = OCCUPIED)
                                => found = d)

\* C8 witness: the second driver has completed the ride it was booked for and
\* is Available again behind the first, still Occupied, driver.
C8_Witness ==
    /\ ret.op = "complete_ride"
    /\ Len(registry) = 2
    /\ drivers[1].status = OCCUPIED
    /\ drivers[2].status = AVAILABLE /\ drivers[2].current_ride = None
    /\ Len(rides) = 2 /\ rides[2].driver = 2 /\ rides[2].is_confirmed

\* C9: create_ride_type gives the economy, luxury or pool policy for every
\* spelling, in any mix of cases, of that name; for any other string it raises
\* the "Invalid ride type" ValueError carrying the string as given; and it
\* changes nothing.
C9_FactoryCaseInsensitive ==
    /\ ret.op = "create_ride_type" =>
        /\ (IsEconomy(ret.arg) => ret.raised = NoError /\ ret.result = "EconomyRide")
        /\ (IsLuxury(ret.arg) => ret.raised = NoError /\ ret.result = "LuxuryRide")
        /\ (IsPool(ret.arg) => ret.raised = NoError /\ ret.result = "PoolRide")
        /\ (~IsCategory(ret.arg) =>
               ret.raised = ValueError(<<"Invalid ride type: ">> \o ret.arg))
        /\ ret.printed = <<>>
    /\ drivers = <<>> /\ registry = <<>> /\ customers = <<>> /\ rides = <<>>

\* C9 witness: a mixed-case spelling has just been resolved to the luxury policy.
C9_Witness ==
    /\ ret.op = "create_ride_type"
    /\ ret.arg = <<"l","U","x","U","R","y">>
    /\ ret.result = "LuxuryRide"

\* The per-mile rates of the three categories.
Rate(ride_type) ==
    CASE ride_type = "EconomyRide" -> 5
      [] ride_type = "LuxuryRide"  -> 10
      [] ride_type = "PoolRide"    -> 3

\* C10: for every distance and category the fare computed is the distance
\* times the rate of the category; the fare of every ride is that product from
\* its construction on; and no operation (assign_driver, complete_ride, a
\* further booking, successful or not, the construction of another ride)
\* changes the fare, distance or category of an existing ride.
C10_FareIsRateTimesDistance ==
    /\ \A distance \in FareDistances, ride_type \in RideTypes :
          /\ calculate_fare(ride_type, distance) = distance * Rate(ride_type)
          /\ Ride_init(None, <<>>, <<>>, distance, ride_type).fare
                 = distance * Rate(ride_type)
    /\ \A r \in 1..Len(rides) :
          rides[r].fare = rides[r].distance * Rate(rides[r].ride_type)

C10_FareFixed ==
    /\ []C10_FareIsRateTimesDistance
    /\ [][/\ Len(rides') >= Len(rides)
          /\ \A r \in 1..Len(rides) :
                /\ rides'[r].fare = rides[r].fare
                /\ rides'[r].distance = rides[r].distance
                /\ rides'[r].ride_type = rides[r].ride_type]_vars

\* C10 witness: a luxury ride of 2 miles, constructed by a client (it is in no
\* history), was assigned the driver by assign_driver, the driver completed
\* it, and a further booking of a pool ride has just succeeded with the same
\* driver: the first ride still costs 20.
C10_Witness ==
    /\ ret.op = "book_ride" /\ ret.result = 2
    /\ Len(rides) = 2
    /\ rides[1].ride_type = "LuxuryRide" /\ rides[1].distance = 2 /\ rides[1].fare = 20
    /\ rides[1].is_confirmed /\ rides[1].driver = 1
    /\ rides[2].ride_type = "PoolRide" /\ rides[2].distance > 0
    /\ rides[2].fare = 3 * rides[2].distance
    /\ rides[2].is_confirmed /\ rides[2].driver = 1
    /\ customers[1].ride_history = <<2>>
    /\ drivers[1].current_ride = 2

\* A step in which a booking for the customer succeeded.
SuccessfulBookingFor(customer) ==
    /\ ret'.op = "book_ride"
    /\ ret'.result # None
    /\ rides'[ret'.result].customer = customer

\* C11: a customer's history only ever grows at its end: over every step the
\* old history is a prefix of the new one, it is longer by exactly one entry
\* (the ride just booked) when the step is a successful booking for that
\* customer and not longer otherwise, and a new customer starts with an empty
\* history.
C11_HistoryAppendOnly ==
    [][/\ Len(customers') >= Len(customers)
       /\ \A c \in 1..Len(customers) :
             LET old == customers[c].ride_history
                 new == customers'[c].ride_history
             IN  /\ Len(new) >= Len(old)
                 /\ SubSeq(new, 1, Len(old)) = old
                 /\ IF SuccessfulBookingFor(c)
                    THEN new = Append(old, ret'.result)
                    ELSE new = old
       /\ \A c \in (Len(customers) + 1)..Len(customers') :
             customers'[c].ride_history = <<>>]_vars

\* C11 witness: a customer's second booking has just succeeded, its history
\* holds the two rides in booking order, the other customer's is still empty.
C11_Witness ==
    /\ ret.op = "book_ride" /\ ret.result = 2
    /\ Len(customers) = 2
    /\ customers[1].ride_history = <<1, 2>>
    /\ customers[2].ride_history = <<>>

\* main() has returned after running the bookings it has in the source.
MainReturned == main.pc = Len(MainProgram) + 1 /\ main.bookings = main_bookings

\* C12: when main() has returned, its output is the heading, then per task
\* its title and one line: the confirmation of fare 75 with driver Alice, the
\* confirmation of fare 100 with driver Bob, and "No drivers available.";
\* John's history holds one ride (fare 75, Alice's), Rebecca's one ride (fare
\* 100, Bob's), Mike's none, and both drivers are Occupied.
C12_DemoTrace ==
    MainReturned =>
        /\ main.stdout = << <<"=== SwiftRide System Test ===\n">>,
                            <<"Task 6:">>,
                            <<"Ride Fare: $", "7", "5", ", Driver: ", "Alice">>,
                            <<"\nTask 7:">>,
                            <<"Ride Fare: $", "1", "0", "0", ", Driver: ", "Bob">>,
                            <<"\nTask 8:">>,
                            <<"No drivers available.">> >>
        /\ registry = <<main.locals["alice"], main.locals["bob"]>>
        /\ drivers[main.locals["alice"]].name = <<"Alice">>
        /\ drivers[main.locals["bob"]].name = <<"Bob">>
        /\ \A d \in 1..Len(drivers) : drivers[d].status = OCCUPIED
        /\ Len(customers) = 3
        /\ Len(customers[main.locals["john"]].ride_history) = 1
        /\ Len(customers[main.locals["rebecca"]].ride_history) = 1
        /\ customers[main.locals["mike"]].ride_history = <<>>
        /\ LET r == customers[main.locals["john"]].ride_history[1] IN
           rides[r].fare = 75 /\ rides[r].driver = main.locals["alice"]
        /\ LET r == customers[main.locals["rebecca"]].ride_history[1] IN
           rides[r].fare = 100 /\ rides[r].driver = main.locals["bob"]
        /\ ret.op = "SwiftRideSystem.book_ride" /\ ret.result = None /\ ret.raised = NoError

\* C12 witness: main() has returned after its last booking.
C12_Witness ==
    /\ MainReturned
    /\ ret.op = "SwiftRideSystem.book_ride"
    /\ Len(main.stdout) = 7

\* The number a numeral stands for.
RECURSIVE DecimalValue(_)
DecimalValue(numeral) ==
    IF numeral = <<>> THEN 0
    ELSE 10 * DecimalValue(SubSeq(numeral, 1, Len(numeral) - 1))
         + (CHOOSE k \in 0..9 : digit[k + 1] = numeral[Len(numeral)])

\* The rate per mile of a recognized category.
CategoryRate(s) == IF IsEconomy(s) THEN 5 ELSE IF IsLuxury(s) THEN 10 ELSE 3

\* Whether line is the confirmation line of the fare and the driver's name:
\* "Ride Fare: $", a numeral of the fare without leading zero, ", Driver: ",
\* the name.
IsConfirmationLine(line, fare, name) ==
    LET n == Len(line) - Len(name) - 2 IN
    /\ n >= 1
    /\ line[1] = "Ride Fare: $"
    /\ \A i \in 2..(n + 1) : line[i] \in { digit[k] : k \in 1..10 }
    /\ DecimalValue(SubSeq(line, 2, n + 1)) = fare
    /\ (n = 1 \/ line[2] # "0")
    /\ line[n + 2] = ", Driver: "
    /\ SubSeq(line, n + 3, Len(line)) = name

\* C13: SwiftRideSystem.book_ride never raises and returns nothing.  With a
\* recognized category it prints exactly one line: the confirmation with the
\* fare and the name of the first Available driver when there is one, and
\* "No drivers available." when there is none.  With an unrecognized category
\* it prints "Error booking ride: Invalid ride type: " followed by the category
\* as given, then "No drivers available.", and changes no state.
C13_OneOutcomeLine ==
    \A customer \in 1..Len(customers), pickup \in Pickups, dropoff \in Dropoffs,
       distance \in FareDistances, ride_type \in BookingCategories :
       LET s == SwiftRideSystem_book_ride(Heap, customer, pickup, dropoff,
                                          distance, ride_type)
           h == AfterReturn(Heap, s.h, s.result)
       IN  /\ s.raised = NoError
           /\ s.result = None
           /\ (IsCategory(ride_type) /\ FirstAvailable # None) =>
                 /\ Len(s.printed) = 1
                 /\ IsConfirmationLine(s.printed[1], CategoryRate(ride_type) * distance,
                                       drivers[FirstAvailable].name)
                 /\ Len(h.rides) = Len(rides) + 1
           /\ (IsCategory(ride_type) /\ FirstAvailable = None) =>
                 /\ s.printed = << <<"No drivers available.">> >>
                 /\ h = Heap
           /\ ~IsCategory(ride_type) =>
                 /\ s.printed = << <<"Error booking ride: ", "Invalid ride type: ">>
                                     \o ride_type,
                                   <<"No drivers available.">> >>
                 /\ h = Heap

\* C13 witness: a call with the category "taxi" has just printed the two lines
\* while a driver was Available, and an earlier booking had been confirmed.
C13_Witness ==
    /\ ret.op = "SwiftRideSystem.book_ride" /\ ret.result = None /\ ret.raised = NoError
    /\ ret.printed = << <<"Error booking ride: ", "Invalid ride type: ", "t", "a", "x", "i">>,
                        <<"No drivers available.">> >>
    /\ AvailablePositions # {}
    /\ \E d \in 1..Len(drivers) : drivers[d].status = OCCUPIED

\* C14: get_all_drivers returns a new list holding the registry's drivers in
\* registration order and changes nothing; appending to, popping from or
\* reversing the list the client holds changes no object of the system, so
\* the registry and the result of get_available_driver stay as they were, and
\* get_available_driver returns the first Available driver of the registry
\* whatever the client's list holds; add_driver appends the new driver at the
\* end of the registry, whether or not its name is registered already.
C14_Snapshot ==
    [][/\ ret'.op = "get_all_drivers" =>
             /\ held'.list # "drivers"
             /\ list_items(Heap', held') = registry
             /\ Heap' = Heap
       /\ ret'.op \in {"list.append", "list.pop", "list.reverse"} =>
             /\ Heap' = Heap
             /\ DriverManager_get_available_driver(Heap')
                    = DriverManager_get_available_driver(Heap)
       /\ ret'.op = "get_available_driver" => ret'.result = FirstAvailable
       /\ ret'.op = "add_driver" =>
             /\ registry' = Append(registry, ret'.result)
             /\ ret'.result = Len(drivers) + 1
       /\ \A name \in DriverNames :
             LET a == SwiftRideSystem_add_driver(Heap, name) IN
             /\ a.h.registry = Append(registry, a.result)
             /\ a.h.drivers[a.result].name = name]_vars

\* C14 witness: two drivers of the same name are registered, the first is
\* Occupied; the client has reversed the list it got, and get_available_driver
\* has just returned the second registered driver.
C14_Witness ==
    /\ Len(registry) = 2
    /\ drivers[registry[1]].name = drivers[registry[2]].name
    /\ drivers[registry[1]].status = OCCUPIED
    /\ held.list = "copy"
    /\ held.items = <<registry[2], registry[1]>>
    /\ ret.op = "get_available_driver" /\ ret.result = registry[2]

\* The "not available" error line book_ride would print for the driver.
NotAvailableLine(h, driver) ==
    <<"Error booking ride: ", "Driver ">> \o h.drivers[driver].name \o <<" is not available">>

\* C15: through add_driver, add_customer, book_ride and complete_ride no
\* booking ever hands an Occupied driver to assign_driver: the driver the
\* registry gives is Available, and no booking prints (swallows) the "not
\* available" error.
C15_NotAvailableUnreachable ==
    /\ LET found == DriverManager_get_available_driver(Heap) IN
       found # None => drivers[found].status = AVAILABLE
    /\ \A customer \in 1..Len(customers), pickup \in Pickups, dropoff \in Dropoffs,
          distance \in Distances, ride_type_str \in BookingCategories :
          LET b == RideBookingService_book_ride(Heap, customer, pickup, dropoff,
                                                distance, ride_type_str)
          IN  /\ b.raised = NoError
              /\ \A i \in 1..Len(b.printed), d \in 1..Len(drivers) :
                    b.printed[i] # NotAvailableLine(Heap, d)
    /\ (ret.op = "book_ride" =>
           /\ ret.raised = NoError
           /\ \A i \in 1..Len(ret.printed), d \in 1..Len(drivers) :
                 ret.printed[i] # NotAvailableLine(Heap, d))

\* C15 witness: a booking has just been given the second driver while the
\* first registered driver was Occupied.
C15_Witness ==
    /\ ret.op = "book_ride" /\ ret.result # None /\ ret.printed = <<>>
    /\ Len(registry) = 2
    /\ drivers[registry[1]].status = OCCUPIED
    /\ drivers[registry[2]].current_ride = ret.result

\* C16: a ride that is confirmed with a driver set keeps its is_confirmed,
\* driver, customer and fare over every step, and stays in its customer's
\* history.
C16_ConfirmedIsTerminal ==
    [][\A r \in 1..Len(rides) :
          (rides[r].is_confirmed /\ rides[r].driver # None) =>
              /\ r <= Len(rides')
              /\ rides'[r].is_confirmed = rides[r].is_confirmed
              /\ rides'[r].driver = rides[r].driver
              /\ rides'[r].customer = rides[r].customer
              /\ rides'[r].fare = rides[r].fare
              /\ \A i \in 1..Len(customers[rides[r].customer].ride_history) :
                    customers[rides[r].customer].ride_history[i] = r
                        => customers'[rides[r].customer].ride_history[i] = r]_vars

\* C16 witness: the driver of the confirmed ride 1 has completed it and has
\* been booked again for ride 2; ride 1 is still confirmed with that driver.
C16_Witness ==
    /\ ret.op = "book_ride" /\ ret.result = 2
    /\ rides[1].is_confirmed /\ rides[1].driver = 1
    /\ rides[2].is_confirmed /\ rides[2].driver = 1
    /\ drivers[1].current_ride = 2
    /\ customers[rides[1].customer].ride_history[1] = 1

\* C17: every Occupied driver's current_ride is a confirmed ride whose driver
\* is that driver and which is in the history of its customer; no two Occupied
\* drivers have the same current_ride; every ride in a customer's history is
\* confirmed and has that customer as its customer.
C17_ReferenceConsistency ==
    /\ \A d \in 1..Len(drivers) :
          drivers[d].status = OCCUPIED =>
              LET r == drivers[d].current_ride IN
              /\ r \in 1..Len(rides)
              /\ rides[r].is_confirmed
              /\ rides[r].driver = d
              /\ \E i \in 1..Len(customers[rides[r].customer].ride_history) :
                    customers[rides[r].customer].ride_history[i] = r
    /\ \A d1, d2 \in 1..Len(drivers) :
          (d1 # d2 /\ drivers[d1].status = OCCUPIED /\ drivers[d2].status = OCCUPIED)
              => drivers[d1].current_ride # drivers[d2].current_ride
    /\ \A c \in 1..Len(customers) :
          \A i \in 1..Len(customers[c].ride_history) :
              LET r == customers[c].ride_history[i] IN
              /\ r \in 1..Len(rides)
              /\ rides[r].is_confirmed
              /\ rides[r].customer = c

\* C17 witness: both drivers are Occupied, each with the ride of a different
\* customer.
C17_Witness ==
    /\ Len(drivers) = 2
    /\ drivers[1].status = OCCUPIED /\ drivers[2].status = OCCUPIED
    /\ rides[drivers[1].current_ride].customer = 2
    /\ rides[drivers[2].current_ride].customer = 1
    /\ ret.op = "book_ride"

====
